---- MODULE Spec2Model ----
(***************************************************************************)
(* Vidary AI-content detector: the detection router (analyzeImage,         *)
(* analyzeAudio, analyzeVideo, analyzeText), its duplicate lookup, and the *)
(* streaming multipart upload handler.                                     *)
(*                                                                         *)
(* The repository holds two copies of the detection router, each with the  *)
(* database module whose signatures it calls:                              *)
(*   ver = 1  router src/unnamed/part_008:1-686  + db src/unnamed/part_007 *)
(*   ver = 2  router src/unnamed/part_008:687-1266 + db src/server/db.ts   *)
(* and four copies of the upload handler (see the upload section).         *)
(***************************************************************************)
EXTENDS Integers, Sequences, FiniteSets, TLC

VARIABLES
    ver,        \* which copy of the detection router is deployed (1 | 2)
    world,      \* what the clients of this run submit (byte strings, users)
    rows,       \* table detection_results, in insertion order (id = index)
    objects,    \* storage keys whose put has succeeded
    clock,      \* Date.now(), advanced when a storage key is built
    req,        \* per slot: the analyze request being served
    nreq,       \* number of analyze requests submitted so far
    firsts      \* history: first successful recorded submission per (user, bytes)

detectVars == <<ver, world, rows, objects, clock, req, nreq, firsts>>

VARIABLES
    hcopy,       \* which copy of the upload handler is deployed (1..4)
    hreq,        \* the HTTP request being handled: method, environment, parts
    hpc,         \* "idle" | "piping" (awaiting `done`) | "responded"
    bb,          \* busboy: "open" | "finished" | "errored"
    parsed,      \* number of parts busboy has emitted
    gotFile,     \* let gotFile
    uploadedKey, \* let uploadedKey (copies 2 and 3 share it between parts)
    uploads,     \* the Upload started for each file part, in order
    done,        \* the promise `done`: pending, resolved (value) or rejected
    hnow,        \* Date.now() as the upload handler reads it
    res          \* the HTTP response: headers set, res.end() calls, what was sent

uploadVars == <<hcopy, hreq, hpc, bb, parsed, gotFile, uploadedKey, uploads, done, hnow, res>>

VARIABLES
    gen         \* a call of getTopDetectedGenerator: its argument and result

VARIABLES
    scfg,       \* ENV as the storage adapter reads it
    store,      \* per backend and key: the bytes it holds (0: none)
    scall,      \* the storage adapter call in progress
    lastPut,    \* history: per key, the bytes of the last storagePut that succeeded
    slast,      \* history: the storage adapter call that completed last
    ncalls      \* number of storage adapter calls started

storageVars == <<scfg, store, scall, lastPut, slast, ncalls>>

VARIABLES
    shver,      \* which copy of the router and of the db module serves shares
    sresults,   \* table detection_results: per id, the owning user (0: no row)
    shareLinks, \* table share_links: per share token, its row
    incs,       \* per caller: a call of incrementShareLinkView and its position
    shnow,      \* new Date(), advanced by every update of a share link
    shlast,     \* history: the procedure or query that completed last
    nshare      \* number of procedures and queries completed

shareVars == <<shver, sresults, shareLinks, incs, shnow, shlast, nshare>>

\* state of the parts of the program examined on their own
libVars == <<gen, storageVars, shareVars>>

-----------------------------------------------------------------------------
(* Bounds of the model *)

MaxRequests == 2
MaxLimitRequests == 1
MaxElapsedMs == 1
SmallLen == 15

-----------------------------------------------------------------------------
(* Constants of the detection router *)

ALLOWED_IMAGE_TYPES == <<"image/jpeg", "image/png", "image/webp">>
ALLOWED_AUDIO_TYPES == <<"audio/mpeg", "audio/wav", "audio/x-m4a", "audio/mp4">>
ALLOWED_VIDEO_TYPES == <<"video/mp4", "video/quicktime", "video/webm">>

MAX_IMAGE_SIZE == 10 * 1024 * 1024
MAX_AUDIO_SIZE == 50 * 1024 * 1024
MAX_VIDEO_SIZE == 100 * 1024 * 1024
MAX_TEXT_LENGTH == 50000

Ops == {"image", "audio", "video", "text"}
FileOps == {"image", "audio", "video"}
Slots == {1, 2}
Versions == {1, 2}

Range(f) == {f[i] : i \in DOMAIN f}

\* Array.prototype.includes on an allow-list
ListIncludes(list, x) == x \in Range(list)

\* String.prototype.includes, on a text held as a sequence of tokens
\* (numbers are held digit by digit, so that "4021" includes "402")
Includes(msg, needle) ==
    \E i \in 1..(Len(msg) - Len(needle) + 1) :
        SubSeq(msg, i, i + Len(needle) - 1) = needle

Needle402 == <<"4", "0", "2">>
NeedlePaidPlan == <<"Paid", "plan">>
NeedleStorageMissing == <<"Storage", "configuration", "missing">>

-----------------------------------------------------------------------------
(* Storage keys, byte strings, hashes *)

\* s3Key: "" (text, copy 1), null (text, copy 2), or detections/<user>/<dir>/<now>-<name>
EmptyKey == [user |-> 0, dir |-> "", t |-> 0]
NullKey == [user |-> 0, dir |-> "null", t |-> 0]

\* JavaScript truthiness of duplicate.s3Key
Truthy(key) == key # EmptyKey /\ key # NullKey

KeyDir(v, op) ==
    CASE op = "image" -> "images"
      [] op = "audio" -> "audio"
      [] op = "video" -> IF v = 1 THEN "videos" ELSE "video"
      [] OTHER -> ""

MakeKey(v, op, user, now) == [user |-> user, dir |-> KeyDir(v, op), t |-> now]

\* sha256 is collision-resistant: the digest identifies the bytes
calculateFileHash(content) == <<"sha256", content.tag, content.len>>

NoContent == [tag |-> 0, len |-> 0]

-----------------------------------------------------------------------------
(* Errors thrown by the collaborators.  cause is the ground truth of what  *)
(* failed; msg is error.message, which is all the router looks at.         *)

NoErr == [cause |-> "none", status |-> 0, msg |-> <<>>]

DigitStr(d) ==
    CASE d = 0 -> "0" [] d = 1 -> "1" [] d = 2 -> "2" [] d = 3 -> "3"
      [] d = 4 -> "4" [] d = 5 -> "5" [] d = 6 -> "6" [] d = 7 -> "7"
      [] d = 8 -> "8" [] OTHER -> "9"

\* `${response.status}` of a three-digit HTTP status
StatusDigits(n) == <<DigitStr(n \div 100), DigitStr((n \div 10) % 10), DigitStr(n % 10)>>

ApiErrorPrefix(op, audioType) ==
    CASE op = "image" -> <<"AI or Not API error:">>
      [] op = "audio" /\ audioType = "voice" -> <<"AI or Not API error (audio voice):">>
      [] op = "audio" -> <<"AI or Not API error (audio music):">>
      [] op = "video" -> <<"AI or Not Video API error:">>
      [] OTHER -> <<"AI or Not API error (text):">>

\* What the detection service answers when it does not answer OK:
\* an HTTP status and a response text
UpstreamFailures ==
    { [status |-> 402, body |-> <<"Payment", "Required">>],
      [status |-> 403, body |-> <<"Paid", "plan", "required">>],
      [status |-> 500, body |-> <<"upstream", "failure">>],
      [status |-> 500, body |-> <<"trace", "9", "4", "0", "2", "1">>] }

\* new Error(`AI or Not API error: ${response.status} - ${errorText}`)
UpstreamError(op, audioType, f) ==
    [cause |-> "upstream", status |-> f.status,
     msg |-> ApiErrorPrefix(op, audioType) \o StatusDigits(f.status) \o <<"-">> \o f.body]

\* the upstream refused because of the plan: HTTP 402, or a paid-plan text
PlanRestricted(err) ==
    /\ err.cause = "upstream"
    /\ (err.status = 402 \/ Includes(err.msg, NeedlePaidPlan))

StoragePutErrors ==
    { [cause |-> "storage", status |-> 0,
       msg |-> <<"Storage", "configuration", "missing", ":", "set",
                 "BUILT_IN_FORGE_API_KEY", "or", "S3", "credentials">>],
      [cause |-> "storage", status |-> 0, msg |-> <<"S3", "request", "failed">>] }

StorageGetErrors ==
    { [cause |-> "storage", status |-> 0,
       msg |-> <<"Storage", "configuration", "missing">>],
      [cause |-> "storage", status |-> 0, msg |-> <<"S3", "request", "failed">>] }

DbErrors ==
    { [cause |-> "db", status |-> 0, msg |-> <<"DATABASE_URL", "is", "not", "defined">>] }

FetchErrors ==
    { [cause |-> "fetch", status |-> 0, msg |-> <<"fetch", "failed">>] }

MalformedVideoError(v) ==
    [cause |-> "malformed", status |-> 0,
     msg |-> IF v = 1
             THEN <<"Invalid", "response", "from", "AI", "detection", "service">>
             ELSE <<"Cannot", "read", "properties", "of", "undefined">>]

-----------------------------------------------------------------------------
(* Responses of an analyze procedure *)

NoResp ==
    [kind |-> "none", code |-> "", msg |-> <<>>, verdict |-> "", confidence |-> <<>>,
     isCached |-> "absent", processingTimeMs |-> 0, fileUrl |-> EmptyKey]

\* throw new TRPCError({ code, message })
ErrResp(code, msg) == [NoResp EXCEPT !.kind = "error", !.code = code, !.msg = msg]

\* return { success: true, verdict, confidence, fileUrl, processingTimeMs, isCached }
\* (fileUrl is held as the key the URL points at; EmptyKey stands for "")
OkResp(verdict, confidence, isCached, ms, urlKey) ==
    [NoResp EXCEPT !.kind = "ok", !.verdict = verdict, !.confidence = confidence,
                   !.isCached = isCached, !.processingTimeMs = ms, !.fileUrl = urlKey]

-----------------------------------------------------------------------------
(* Validation: the synchronous head of each procedure *)

AllowedTypes(op) ==
    CASE op = "image" -> ALLOWED_IMAGE_TYPES
      [] op = "audio" -> ALLOWED_AUDIO_TYPES
      [] OTHER -> ALLOWED_VIDEO_TYPES

\* the list joined into the "Invalid ... type. Allowed: ..." message
AllowedTypesInMessage(v, op) ==
    CASE op = "image" -> ALLOWED_IMAGE_TYPES
      [] op = "audio" -> ALLOWED_AUDIO_TYPES
      [] OTHER -> IF v = 1 THEN ALLOWED_VIDEO_TYPES ELSE ALLOWED_IMAGE_TYPES

InvalidTypeHead(op) ==
    CASE op = "image" -> "Invalid image type. Allowed:"
      [] op = "audio" -> "Invalid audio type. Allowed:"
      [] OTHER -> "Invalid video type. Allowed:"

InvalidTypeMessage(v, op) == <<InvalidTypeHead(op)>> \o AllowedTypesInMessage(v, op)

MaxSize(op) ==
    CASE op = "image" -> MAX_IMAGE_SIZE
      [] op = "audio" -> MAX_AUDIO_SIZE
      [] op = "video" -> MAX_VIDEO_SIZE
      [] OTHER -> MAX_TEXT_LENGTH

\* mutant: the ceiling itself is rejected
TooLargeInclusive(op, len) == len >= MaxSize(op)

\* if (fileBuffer.length > MAX_..._SIZE) / z.string().max(MAX_TEXT_LENGTH)
TooLarge(op, len) == len > MaxSize(op)

TooLargeMessage(op) ==
    CASE op = "image" -> <<"Image too large. Maximum size:", "10MB">>
      [] op = "audio" -> <<"Audio too large. Maximum size:", "50MB">>
      [] op = "video" -> <<"Video too large. Maximum size:", "100MB">>
      [] OTHER -> <<"String must contain at most", "50000", "character(s)">>

\* let fileBuffer: if (input.fileUrl) fetch ... else if (input.fileData) ... else throw
NeedsFetch(op, source) == op \in {"audio", "video"} /\ source = "url"

\* mutant: the fileUrl is fetched before the MIME type is looked at
FirstStepFetchFirst(v, op, mime, source, len) ==
    IF NeedsFetch(op, source)
    THEN [pc |-> "fetch", resp |-> NoResp]
    ELSE IF op # "text" /\ ~ListIncludes(AllowedTypes(op), mime)
    THEN [pc |-> "done", resp |-> ErrResp("BAD_REQUEST", InvalidTypeMessage(v, op))]
    ELSE IF op # "text" /\ source = "none"
    THEN [pc |-> "done", resp |-> ErrResp("BAD_REQUEST", <<"No file data provided">>)]
    ELSE IF len < 1 \/ TooLarge(op, len)
    THEN [pc |-> "done", resp |-> ErrResp("BAD_REQUEST", TooLargeMessage(op))]
    ELSE [pc |-> IF op = "text" /\ v = 2 THEN "detect" ELSE "lookup", resp |-> NoResp]

\* The code up to the first await: the next position and, when the request
\* is rejected there, the error thrown.
FirstStep(v, op, mime, source, len) ==
    IF op = "text"
    THEN IF len < 1 \/ TooLarge(op, len)
         THEN [pc |-> "done", resp |-> ErrResp("BAD_REQUEST", TooLargeMessage(op))]
         ELSE [pc |-> IF v = 1 THEN "lookup" ELSE "detect", resp |-> NoResp]
    ELSE IF ~ListIncludes(AllowedTypes(op), mime)
    THEN [pc |-> "done", resp |-> ErrResp("BAD_REQUEST", InvalidTypeMessage(v, op))]
    ELSE IF NeedsFetch(op, source)
    THEN [pc |-> "fetch", resp |-> NoResp]
    ELSE IF source = "none"
    THEN [pc |-> "done", resp |-> ErrResp("BAD_REQUEST", <<"No file data provided">>)]
    ELSE IF TooLarge(op, len)
    THEN [pc |-> "done", resp |-> ErrResp("BAD_REQUEST", TooLargeMessage(op))]
    ELSE [pc |-> "lookup", resp |-> NoResp]

\* The code between the fetch of fileUrl and the try block: the size check
AfterFetchStep(op, len) ==
    IF TooLarge(op, len)
    THEN [pc |-> "done", resp |-> ErrResp("BAD_REQUEST", TooLargeMessage(op))]
    ELSE [pc |-> "lookup", resp |-> NoResp]

-----------------------------------------------------------------------------
(* The catch block of each procedure *)

\* whether the catch block looks for "402" / "Paid plan" in error.message
HandlesPlanLimit(v, op) ==
    CASE op = "image" -> TRUE
      [] op = "audio" -> TRUE
      [] op = "video" -> v = 1
      [] OTHER -> FALSE

UpgradeMessage(op) ==
    CASE op = "image" -> <<"Image detection is not available with the current API plan. Please upgrade your account.">>
      [] op = "audio" -> <<"Audio detection is not available with the current API plan. Please upgrade your account.">>
      [] OTHER -> <<"Video detection is not available with the current API plan. Please upgrade your account.">>

GenericMessage(op) ==
    CASE op = "image" -> <<"Failed to analyze image. Please try again.">>
      [] op = "audio" -> <<"Failed to analyze audio. Please try again.">>
      [] op = "video" -> <<"Failed to analyze video. Please try again.">>
      [] OTHER -> <<"Failed to analyze text. Please try again.">>

StorageNotConfiguredMessage == <<"Server storage not configured. Please contact support.">>

\* message of the INTERNAL_SERVER_ERROR: the literal (copy 1), or
\* error.message || literal (copy 2)
FailureMessage(v, op, err) ==
    IF v = 1 \/ err.msg = <<>> THEN GenericMessage(op) ELSE err.msg

\* mutant: every caught error is reported as a plan restriction
CatchAsForbidden(v, op, err) == ErrResp("FORBIDDEN", UpgradeMessage(op))

Catch(v, op, err) ==
    IF HandlesPlanLimit(v, op)
       /\ (Includes(err.msg, Needle402) \/ Includes(err.msg, NeedlePaidPlan))
    THEN ErrResp("FORBIDDEN", UpgradeMessage(op))
    ELSE IF v = 1 /\ op = "video" /\ Includes(err.msg, NeedleStorageMissing)
    THEN ErrResp("INTERNAL_SERVER_ERROR", StorageNotConfiguredMessage)
    ELSE ErrResp("INTERNAL_SERVER_ERROR", FailureMessage(v, op, err))

\* An error thrown outside the try block reaches the RPC layer, which answers
\* INTERNAL_SERVER_ERROR carrying the error's own message
Uncaught(err) == ErrResp("INTERNAL_SERVER_ERROR", err.msg)

-----------------------------------------------------------------------------
(* Normalisation of the upstream answer.  An upstream confidence c is held *)
(* as the integer c * 100000; a four-decimal string "i.dddd" is held as    *)
(* its characters.                                                         *)

\* Number.prototype.toFixed(4) of n / 10000
Fixed4Str(n) ==
    <<DigitStr(n \div 10000), ".", DigitStr((n \div 1000) % 10),
      DigitStr((n \div 100) % 10), DigitStr((n \div 10) % 10), DigitStr(n % 10)>>

\* c.toFixed(4)
ToFixed4(c) == Fixed4Str((c + 5) \div 10)

\* Math.round(c * 100), then (confidencePercent / 100).toFixed(4)
PercentToFixed4(c) == Fixed4Str(((c + 500) \div 1000) * 100)

\* copy 1 rounds to whole percent everywhere; copy 2 does so for image and audio
\* and formats the upstream number directly for video and text
Confidence(v, op, c) ==
    IF v = 2 /\ op \in {"video", "text"} THEN ToFixed4(c) ELSE PercentToFixed4(c)

\* What the detection service answers when it answers OK.  ok = FALSE is a
\* video answer without report.ai_video.
ApiAnswers(op) ==
    { [ok |-> TRUE, verdict |-> "ai", conf |-> 95300],
      [ok |-> TRUE, verdict |-> "human", conf |-> 10000] }
    \cup (IF op = "video" THEN {[ok |-> FALSE, verdict |-> "", conf |-> 0]} ELSE {})

NoApi == [ok |-> FALSE, verdict |-> "", conf |-> 0]

\* isCached of a fresh result: copy 2's analyzeText returns no such field
FreshIsCached(v, op) == IF v = 2 /\ op = "text" THEN "absent" ELSE "false"

-----------------------------------------------------------------------------
(* Database module *)

\* decimal(5,4) column: the string written is parsed into ten-thousandths and
\* the value read back is printed with four decimals
DigitVal(ch) ==
    CASE ch = "0" -> 0 [] ch = "1" -> 1 [] ch = "2" -> 2 [] ch = "3" -> 3
      [] ch = "4" -> 4 [] ch = "5" -> 5 [] ch = "6" -> 6 [] ch = "7" -> 7
      [] ch = "8" -> 8 [] OTHER -> 9

DecimalWrite(str) ==
    DigitVal(str[1]) * 10000 + DigitVal(str[3]) * 1000 + DigitVal(str[4]) * 100
        + DigitVal(str[5]) * 10 + DigitVal(str[6])

DecimalRead(n) == Fixed4Str(n)

\* select ... where userId = ? and fileHash = ? limit 1 (no order by): the ids
\* of the rows the query may return; empty when there is no match
findDuplicateAnalysis(table, userId, fileHash) ==
    {i \in 1..Len(table) : table[i].userId = userId /\ table[i].fileHash = fileHash}

\* insert into detection_results
createDetectionResult(table, userId, data) ==
    Append(table, [id |-> Len(table) + 1, userId |-> userId, fileType |-> data.fileType,
                   fileHash |-> data.fileHash, s3Key |-> data.s3Key,
                   verdict |-> data.verdict,
                   confidence |-> DecimalWrite(data.confidence),
                   rawResponse |-> data.rawResponse])

\* the detection call a procedure makes: analyzeAudio chooses by audioType
Endpoint(op, audioType) ==
    IF op = "audio"
    THEN (IF audioType = "voice" THEN "detectAudioVoiceAI" ELSE "detectAudioMusicAI")
    ELSE CASE op = "image" -> "detectImageAI"
           [] op = "video" -> "detectVideoAI"
           [] OTHER -> "detectTextAI"

\* mutant: a text row names a storage key
TextKeyStored(v) == [user |-> 0, dir |-> "text", t |-> 1]

\* s3Key of a text row: "" in copy 1, null in copy 2
TextKey(v) == IF v = 1 THEN EmptyKey ELSE NullKey

-----------------------------------------------------------------------------
(* State of one analyze request *)

NoEffects == [fetch |-> 0, lookup |-> 0, get |-> 0, detect |-> 0, put |-> 0, insert |-> 0]

Idle ==
    [pc |-> "idle", op |-> "", audioType |-> "", user |-> 0, content |-> NoContent,
     mime |-> "", source |-> "", dup |-> 0, lookupFailed |-> FALSE, api |-> NoApi,
     verdict |-> "", confidence |-> <<>>, elapsed |-> 0, key |-> EmptyKey, getKey |-> EmptyKey, eff |-> NoEffects,
     err |-> NoErr, resp |-> NoResp]

\* what the clients of a run submit: the procedures called, the callers, the
\* byte strings, and how many requests the run holds
OpWorld(op, users, tags) ==
    [ops |-> {op}, users |-> users,
     contents |-> {[tag |-> t, len |-> SmallLen] : t \in tags},
     budget |-> MaxRequests, maxInFlight |-> 1]

BoundaryLens ==
    {MAX_TEXT_LENGTH, MAX_TEXT_LENGTH + 1, MAX_IMAGE_SIZE, MAX_IMAGE_SIZE + 1,
     MAX_AUDIO_SIZE, MAX_AUDIO_SIZE + 1, MAX_VIDEO_SIZE, MAX_VIDEO_SIZE + 1}

LimitWorld ==
    [ops |-> Ops, users |-> {1},
     contents |-> {[tag |-> 1, len |-> l] : l \in BoundaryLens},
     budget |-> MaxLimitRequests, maxInFlight |-> 1]

\* one user submits the same image in requests that may overlap
RaceWorld ==
    [ops |-> {"image"}, users |-> {1}, contents |-> {[tag |-> 1, len |-> SmallLen]},
     budget |-> Cardinality(Slots), maxInFlight |-> Cardinality(Slots)]

\* one user submits the same bytes to analyzeImage and to analyzeVideo
CrossWorld ==
    [ops |-> {"image", "video"}, users |-> {1},
     contents |-> {[tag |-> 1, len |-> SmallLen]},
     budget |-> Cardinality(Slots), maxInFlight |-> 1]

Worlds ==
    {OpWorld(op, {1, 2}, {1}) : op \in Ops}
        \cup {OpWorld(op, {1}, {1, 2}) : op \in Ops}
        \cup {LimitWorld, RaceWorld, CrossWorld}

AudioTypes(op) == IF op = "audio" THEN {"voice", "music"} ELSE {"n/a"}
MimesOf(op) ==
    IF op = "text" THEN {"n/a"}
    ELSE {AllowedTypes(op)[1], "text/plain", IF op = "image" THEN "video/mp4" ELSE "image/png"}
SourcesOf(op) == IF op \in {"audio", "video"} THEN {"inline", "url", "none"} ELSE {"inline"}

InFlight == {s \in Slots : req[s].pc # "idle"}
FreeSlot == CHOOSE s \in Slots \ InFlight : \A t \in Slots \ InFlight : s <= t

DetectInit ==
    /\ ver \in Versions
    /\ world \in Worlds
    /\ rows = <<>>
    /\ objects = {}
    /\ clock = 1
    /\ req = [s \in Slots |-> Idle]
    /\ nreq = 0
    /\ firsts = {}

-----------------------------------------------------------------------------
(* The analyze procedures, one action per stretch of code between awaits *)

\* a request arrives: validation up to the first await
Submit(s, op, audioType, user, content, mime, source) ==
    /\ nreq < world.budget
    /\ Cardinality(InFlight) < world.maxInFlight
    /\ s = FreeSlot
    /\ LET step == FirstStep(ver, op, mime, source, content.len)
       IN req' = [req EXCEPT ![s] =
                    [Idle EXCEPT !.pc = step.pc, !.op = op, !.audioType = audioType,
                                 !.user = user, !.content = content, !.mime = mime,
                                 !.source = source, !.resp = step.resp]]
    /\ nreq' = nreq + 1
    /\ UNCHANGED <<uploadVars, libVars>>
    /\ UNCHANGED <<ver, world, rows, objects, clock, firsts>>

\* const response = await fetch(input.fileUrl): the bytes arrive
FetchOk(s) ==
    /\ req[s].pc = "fetch"
    /\ LET step == AfterFetchStep(req[s].op, req[s].content.len)
       IN req' = [req EXCEPT ![s].pc = step.pc, ![s].resp = step.resp,
                             ![s].eff.fetch = 1]
    /\ UNCHANGED <<uploadVars, libVars>>
    /\ UNCHANGED <<ver, world, rows, objects, clock, nreq, firsts>>

\* the fetch rejects; it is outside the try block
FetchFail(s) ==
    /\ req[s].pc = "fetch"
    /\ \E e \in FetchErrors :
         req' = [req EXCEPT ![s].pc = "done", ![s].err = e, ![s].resp = Uncaught(e),
                            ![s].eff.fetch = 1]
    /\ UNCHANGED <<uploadVars, libVars>>
    /\ UNCHANGED <<ver, world, rows, objects, clock, nreq, firsts>>

\* the response of a cache hit
CachedResp(row, urlKey) ==
    OkResp(row.verdict, DecimalRead(row.confidence), "true", 0, urlKey)

\* mutant: the duplicate is ignored
ServesFromCacheNever(d) == FALSE

\* if (duplicate): whether the row found short-circuits the procedure
ServesFromCache(d) == d # 0

\* await findDuplicateAnalysis(ctx.user.id, fileHash) answers
LookupOk(s) ==
    /\ req[s].pc = "lookup"
    /\ LET r == req[s]
           hits == findDuplicateAnalysis(rows, r.user, calculateFileHash(r.content))
       IN \E d \in (IF hits = {} THEN {0} ELSE hits) :
            req' = [req EXCEPT ![s] =
                IF ~ServesFromCache(d)
                THEN [r EXCEPT !.pc = "detect", !.dup = d, !.eff.lookup = 1]
                ELSE IF r.op # "text" /\ Truthy(rows[d].s3Key)
                THEN [r EXCEPT !.pc = "hitGet", !.dup = d, !.eff.lookup = 1]
                ELSE [r EXCEPT !.pc = "done", !.dup = d, !.eff.lookup = 1,
                               !.resp = CachedResp(rows[d], EmptyKey)]]
    /\ UNCHANGED <<uploadVars, libVars>>
    /\ UNCHANGED <<ver, world, rows, objects, clock, nreq, firsts>>

\* the lookup rejects, inside the try block
LookupFail(s) ==
    /\ req[s].pc = "lookup"
    /\ \E e \in DbErrors :
         req' = [req EXCEPT ![s].pc = "done", ![s].lookupFailed = TRUE, ![s].err = e,
                            ![s].eff.lookup = 1,
                            ![s].resp = Catch(ver, req[s].op, e)]
    /\ UNCHANGED <<uploadVars, libVars>>
    /\ UNCHANGED <<ver, world, rows, objects, clock, nreq, firsts>>

\* (await storageGet(duplicate.s3Key)).url on a cache hit
HitGetOk(s) ==
    /\ req[s].pc = "hitGet"
    /\ LET k == rows[req[s].dup].s3Key
       IN req' = [req EXCEPT ![s].pc = "done", ![s].getKey = k, ![s].eff.get = 1,
                             ![s].resp = CachedResp(rows[req[s].dup], k)]
    /\ UNCHANGED <<uploadVars, libVars>>
    /\ UNCHANGED <<ver, world, rows, objects, clock, nreq, firsts>>

HitGetFail(s) ==
    /\ req[s].pc = "hitGet"
    /\ \E e \in StorageGetErrors :
         req' = [req EXCEPT ![s].pc = "done", ![s].getKey = rows[req[s].dup].s3Key,
                            ![s].eff.get = 1, ![s].err = e,
                            ![s].resp = Catch(ver, req[s].op, e)]
    /\ UNCHANGED <<uploadVars, libVars>>
    /\ UNCHANGED <<ver, world, rows, objects, clock, nreq, firsts>>

\* network failure of the call to the detection service
NetworkError == [cause |-> "upstream", status |-> 0, msg |-> <<"fetch", "failed">>]

\* await detectImageAI / detectAudioVoiceAI / detectAudioMusicAI / detectVideoAI /
\* detectTextAI answers OK; the answer is normalised and the storage key built
DetectOk(s) ==
    /\ req[s].pc = "detect"
    /\ LET r == req[s]
       IN \E a \in ApiAnswers(r.op), ms \in 0..MaxElapsedMs :
            IF ~a.ok
            THEN /\ req' = [req EXCEPT ![s] =
                      [r EXCEPT !.pc = "done", !.api = a, !.elapsed = ms, !.eff.detect = 1,
                                !.err = MalformedVideoError(ver),
                                !.resp = Catch(ver, r.op, MalformedVideoError(ver))]]
                 /\ clock' = clock
            ELSE IF r.op = "text"
            THEN /\ req' = [req EXCEPT ![s] =
                      [r EXCEPT !.pc = "insert", !.api = a, !.elapsed = ms,
                                !.eff.detect = 1, !.verdict = a.verdict,
                                !.confidence = Confidence(ver, r.op, a.conf),
                                !.key = TextKey(ver)]]
                 /\ clock' = clock
            ELSE /\ req' = [req EXCEPT ![s] =
                      [r EXCEPT !.pc = "put", !.api = a, !.elapsed = ms,
                                !.eff.detect = 1, !.verdict = a.verdict,
                                !.confidence = Confidence(ver, r.op, a.conf),
                                !.key = MakeKey(ver, r.op, r.user, clock)]]
                 /\ clock' = clock + 1
    /\ UNCHANGED <<uploadVars, libVars>>
    /\ UNCHANGED <<ver, world, rows, objects, nreq, firsts>>

\* the detection call throws (non-OK answer, or no answer)
DetectFail(s) ==
    /\ req[s].pc = "detect"
    /\ LET r == req[s]
       IN \E e \in {UpstreamError(r.op, r.audioType, f) : f \in UpstreamFailures}
                    \cup {NetworkError} :
            req' = [req EXCEPT ![s].pc = "done", ![s].err = e, ![s].eff.detect = 1,
                               ![s].resp = Catch(ver, r.op, e)]
    /\ UNCHANGED <<uploadVars, libVars>>
    /\ UNCHANGED <<ver, world, rows, objects, clock, nreq, firsts>>

\* await storagePut(s3Key, fileBuffer, input.mimeType)
PutOk(s) ==
    /\ req[s].pc = "put"
    /\ objects' = objects \cup {req[s].key}
    /\ req' = [req EXCEPT ![s].pc = "insert", ![s].eff.put = 1]
    /\ UNCHANGED <<uploadVars, libVars>>
    /\ UNCHANGED <<ver, world, rows, clock, nreq, firsts>>

PutFail(s) ==
    /\ req[s].pc = "put"
    /\ \E e \in StoragePutErrors :
         req' = [req EXCEPT ![s].pc = "done", ![s].err = e, ![s].eff.put = 1,
                            ![s].resp = Catch(ver, req[s].op, e)]
    /\ UNCHANGED <<uploadVars, libVars>>
    /\ UNCHANGED <<ver, world, rows, objects, clock, nreq, firsts>>

\* await createDetectionResult(...), then the fresh result is returned
InsertOk(s) ==
    /\ req[s].pc = "insert"
    /\ LET r == req[s]
       IN /\ rows' = createDetectionResult(rows, r.user,
                        [fileType |-> r.op, fileHash |-> calculateFileHash(r.content),
                         s3Key |-> r.key, verdict |-> r.verdict,
                         confidence |-> r.confidence,
                         rawResponse |-> Endpoint(r.op, r.audioType)])
          /\ req' = [req EXCEPT ![s].pc = "done", ![s].eff.insert = 1,
                        ![s].resp = OkResp(r.verdict, r.confidence,
                                           FreshIsCached(ver, r.op), r.elapsed,
                                           IF r.op = "text" THEN EmptyKey ELSE r.key)]
    /\ UNCHANGED <<uploadVars, libVars>>
    /\ UNCHANGED <<ver, world, objects, clock, nreq, firsts>>

InsertFail(s) ==
    /\ req[s].pc = "insert"
    /\ \E e \in DbErrors :
         req' = [req EXCEPT ![s].pc = "done", ![s].err = e, ![s].eff.insert = 1,
                            ![s].resp = Catch(ver, req[s].op, e)]
    /\ UNCHANGED <<uploadVars, libVars>>
    /\ UNCHANGED <<ver, world, rows, objects, clock, nreq, firsts>>

\* the response has been delivered; the slot is free again
Finish(s) ==
    /\ req[s].pc = "done"
    /\ LET r == req[s]
           recorded == r.resp.kind = "ok" /\ r.eff.insert = 1 /\ r.dup = 0
           known == \E f \in firsts : f.user = r.user /\ f.content = r.content
       IN firsts' = IF recorded /\ ~known
                    THEN firsts \cup {[user |-> r.user, content |-> r.content,
                                       verdict |-> r.resp.verdict,
                                       confidence |-> r.resp.confidence]}
                    ELSE firsts
    /\ req' = [req EXCEPT ![s] = Idle]
    /\ UNCHANGED <<uploadVars, libVars>>
    /\ UNCHANGED <<ver, world, rows, objects, clock, nreq>>

DetectNext ==
    \/ \E s \in Slots, op \in world.ops, user \in world.users, content \in world.contents :
         \E audioType \in AudioTypes(op), mime \in MimesOf(op), source \in SourcesOf(op) :
            Submit(s, op, audioType, user, content, mime, source)
    \/ \E s \in Slots : FetchOk(s)
    \/ \E s \in Slots : FetchFail(s)
    \/ \E s \in Slots : LookupOk(s)
    \/ \E s \in Slots : LookupFail(s)
    \/ \E s \in Slots : HitGetOk(s)
    \/ \E s \in Slots : HitGetFail(s)
    \/ \E s \in Slots : DetectOk(s)
    \/ \E s \in Slots : DetectFail(s)
    \/ \E s \in Slots : PutOk(s)
    \/ \E s \in Slots : PutFail(s)
    \/ \E s \in Slots : InsertOk(s)
    \/ \E s \in Slots : InsertFail(s)
    \/ \E s \in Slots : Finish(s)

-----------------------------------------------------------------------------
(* The upload handler (POST /api/upload), in its four copies:              *)
(*   hcopy = 1  src/api/upload.ts:1-104      key local to the file part    *)
(*   hcopy = 2  src/api/upload.ts:106-207    uploadedKey shared            *)
(*   hcopy = 3  src/unnamed/part_000:1-108   uploadedKey shared, signed URL*)
(*   hcopy = 4  src/unnamed/part_000:110-211 key local, name sanitised     *)
(* busboy emits one event per part of the body, then finish; each Upload   *)
(* settles on its own; the handler answers when the promise `done` settles *)

MaxParts == 2

HandlerCopies == {1, 2, 3, 4}
SharesKey(c) == c \in {2, 3}
Methods == {"POST", "OPTIONS", "GET"}

\* the environment variables a copy reads, in the order it reads them
EnvNames(c) ==
    IF c = 3
    THEN <<"S3_BUCKET", "S3_ACCESS_KEY_ID", "S3_SECRET_ACCESS_KEY">>
    ELSE <<"S3_BUCKET", "S3_PUBLIC_BASE", "S3_ACCESS_KEY_ID", "S3_SECRET_ACCESS_KEY">>

AllEnv == {"S3_BUCKET", "S3_PUBLIC_BASE", "S3_ACCESS_KEY_ID", "S3_SECRET_ACCESS_KEY"}
Envs == {AllEnv} \cup {AllEnv \ {n} : n \in AllEnv}

\* mustEnv / getEnv: the first variable read that is not set ("" when all are)
FirstMissing(c, env) ==
    LET names == EnvNames(c)
        missing == {i \in 1..Len(names) : names[i] \notin env}
    IN IF missing = {} THEN ""
       ELSE names[CHOOSE i \in missing : \A j \in missing : i <= j]

MissingEnvError(name) == [msg |-> <<"Missing env:", name>>]
NoFileError(c) ==
    [msg |-> IF c = 1 THEN <<"No file field provided (expected form field 'file')">>
             ELSE <<"No file field provided">>]
ParserError == [msg |-> <<"Unexpected end of form">>]
UploadError == [msg |-> <<"AccessDenied">>]
SignError == [msg |-> <<"Credential is missing">>]
NoError == [msg |-> <<>>]

\* file names, as their characters
WhiteSpace == {" "}
NonWord == {" ", "#"}
Filenames == { <<>>, <<"a", " ", "b">> }

\* String.prototype.replace(/[bad]+/g, "_")
RECURSIVE ReplaceRuns(_, _)
ReplaceRuns(str, bad) ==
    IF str = <<>> THEN <<>>
    ELSE IF Head(str) \in bad
    THEN IF Len(str) > 1 /\ str[2] \in bad
         THEN ReplaceRuns(Tail(str), bad)
         ELSE <<"_">> \o ReplaceRuns(Tail(str), bad)
    ELSE <<Head(str)>> \o ReplaceRuns(Tail(str), bad)

\* `uploads/${Date.now()}-${filename}` with the copy's replacement applied
UploadKey(c, t, filename) ==
    LET name == IF filename = <<>> THEN <<"file">> ELSE filename
    IN [t |-> t, name |-> ReplaceRuns(name, IF c = 4 THEN NonWord ELSE WhiteSpace)]

NoKey == [t |-> 0, name |-> <<>>]

FieldPart == [kind |-> "field", filename |-> <<>>]
FilePart(filename) == [kind |-> "file", filename |-> filename]
Parts == {FieldPart} \cup {FilePart(f) : f \in Filenames}
Bodies == UNION {[1..n -> Parts] : n \in 0..MaxParts}

\* the promise `done`
Pending == [state |-> "pending", scheme |-> "", fileUrl |-> NoKey, key |-> NoKey, err |-> NoError]
Resolved(scheme, urlKey, key) ==
    [state |-> "resolved", scheme |-> scheme, fileUrl |-> urlKey, key |-> key, err |-> NoError]
Rejected(err) ==
    [state |-> "rejected", scheme |-> "", fileUrl |-> NoKey, key |-> NoKey, err |-> err]

\* resolve / reject: only the first settlement of a promise takes effect
Settle(p, outcome) == IF p.state = "pending" THEN outcome ELSE p

\* the response
CorsHeaders ==
    { "Access-Control-Allow-Origin", "Access-Control-Allow-Methods",
      "Access-Control-Allow-Headers" }
NoBody == [kind |-> "empty", error |-> "", message |-> <<>>, scheme |-> "",
           fileUrl |-> NoKey, key |-> NoKey, hasKey |-> FALSE]
NoRes == [headers |-> {}, ends |-> 0, status |-> 0, body |-> NoBody, sentWith |-> <<>>]

JsonError(error, message) == [NoBody EXCEPT !.kind = "json", !.error = error, !.message = message]
TextBody(text) == [NoBody EXCEPT !.kind = "text", !.message = text]

\* the body of the 200: { fileUrl }, and in copy 3 { fileUrl, key }
OkBody(c, p) ==
    [NoBody EXCEPT !.kind = "json", !.scheme = p.scheme, !.fileUrl = p.fileUrl,
                   !.key = IF c = 3 THEN p.key ELSE NoKey, !.hasKey = (c = 3)]

\* the catch block of the handler
FailBody(c, err) ==
    LET message == IF err.msg = <<>> THEN <<"Server error">> ELSE err.msg
    IN CASE c = 1 -> JsonError("UPLOAD_FAILED", message)
         [] c = 4 -> JsonError("Upload failed", err.msg)
         [] OTHER -> TextBody(<<"A server error has occurred">>)

\* res.end(): the response as sent, with the uploads as they stood then
End(r, status, body, ups) ==
    [r EXCEPT !.ends = @ + 1, !.status = status, !.body = body, !.sentWith = ups]

UploadIdle ==
    /\ hreq = [method |-> "", env |-> {}, parts |-> <<>>]
    /\ hpc = "idle"
    /\ bb = "none"
    /\ parsed = 0
    /\ gotFile = FALSE
    /\ uploadedKey = NoKey
    /\ uploads = <<>>
    /\ done = Pending
    /\ hnow = 1
    /\ res = NoRes

UploadQuiet == hcopy = 1 /\ UploadIdle
UploadInit == hcopy \in HandlerCopies /\ UploadIdle

\* mutant: the environment is read before the method is looked at
EntryEnvFirst(c, method, env) ==
    IF FirstMissing(c, env) # "" THEN "fail"
    ELSE IF method = "OPTIONS" THEN "preflight"
    ELSE IF method # "POST" THEN "notAllowed"
    ELSE "pipe"

\* the order of the handler's first tests: method, then environment
Entry(c, method, env) ==
    IF method = "OPTIONS" THEN "preflight"
    ELSE IF method # "POST" THEN "notAllowed"
    ELSE IF FirstMissing(c, env) # "" THEN "fail"
    ELSE "pipe"

\* the handler from its entry to `await done`
Handle(method, env, parts) ==
    /\ hpc = "idle"
    /\ hreq' = [method |-> method, env |-> env, parts |-> parts]
    /\ LET r == [res EXCEPT !.headers = CorsHeaders]
           entry == Entry(hcopy, method, env)
       IN IF entry = "preflight"
          THEN /\ res' = End(r, 204, NoBody, uploads)
               /\ hpc' = "responded"
               /\ bb' = bb
          ELSE IF entry = "notAllowed"
          THEN /\ res' = End(r, 405, JsonError("Method Not Allowed", <<>>), uploads)
               /\ hpc' = "responded"
               /\ bb' = bb
          ELSE IF entry = "fail"
          THEN /\ res' = End(r, 500, FailBody(hcopy, MissingEnvError(FirstMissing(hcopy, env))),
                             uploads)
               /\ hpc' = "responded"
               /\ bb' = bb
          ELSE /\ res' = r
               /\ hpc' = "piping"
               /\ bb' = "open"
    /\ UNCHANGED <<hcopy, parsed, gotFile, uploadedKey, uploads, done, hnow>>
    /\ UNCHANGED <<detectVars, libVars>>

\* the stream of the part before has ended once busboy moves on
StreamsEnded(ups) ==
    [i \in 1..Len(ups) |->
        IF ups[i].state = "streaming" THEN [ups[i] EXCEPT !.state = "inflight"] ELSE ups[i]]

\* bb.on("file", ...)
OnFile ==
    /\ bb = "open"
    /\ parsed < Len(hreq.parts)
    /\ hreq.parts[parsed + 1].kind = "file"
    /\ \E t \in {hnow, hnow + 1} :
         LET key == UploadKey(hcopy, t, hreq.parts[parsed + 1].filename)
         IN /\ hnow' = t
            /\ uploadedKey' = IF SharesKey(hcopy) THEN key ELSE uploadedKey
            /\ uploads' = Append(StreamsEnded(uploads),
                                 [key |-> key, state |-> "streaming", then |-> "none",
                                  signKey |-> NoKey])
    /\ gotFile' = TRUE
    /\ parsed' = parsed + 1
    /\ UNCHANGED <<hcopy, hreq, hpc, bb, done, res>>
    /\ UNCHANGED <<detectVars, libVars>>

\* a part that is not a file: no handler is registered for it
SkipField ==
    /\ bb = "open"
    /\ parsed < Len(hreq.parts)
    /\ hreq.parts[parsed + 1].kind = "field"
    /\ parsed' = parsed + 1
    /\ uploads' = StreamsEnded(uploads)
    /\ UNCHANGED <<hcopy, hreq, hpc, bb, gotFile, uploadedKey, done, hnow, res>>
    /\ UNCHANGED <<detectVars, libVars>>

\* mutant: the code after `await done` runs at every settlement
RespondAtEverySettlement(p, ups) ==
    IF p.state # "pending"
    THEN /\ res' = IF p.state = "resolved"
                   THEN End(res, 200, OkBody(hcopy, p), ups)
                   ELSE End(res, 500, FailBody(hcopy, p.err), ups)
         /\ hpc' = "responded"
    ELSE UNCHANGED <<res, hpc>>

\* the handler after `await done`: the 200, or the catch block.  The
\* continuation is a microtask of the settlement of `done`: it runs before any
\* other event is delivered.
Respond(p, ups) ==
    IF hpc = "piping" /\ p.state # "pending"
    THEN /\ res' = IF p.state = "resolved"
                   THEN End(res, 200, OkBody(hcopy, p), ups)
                   ELSE End(res, 500, FailBody(hcopy, p.err), ups)
         /\ hpc' = "responded"
    ELSE UNCHANGED <<res, hpc>>

\* bb.on("error", reject)
OnError ==
    /\ bb = "open"
    /\ bb' = "errored"
    /\ done' = Settle(done, Rejected(ParserError))
    /\ Respond(done', uploads)
    /\ UNCHANGED <<hcopy, hreq, parsed, gotFile, uploadedKey, uploads, hnow>>
    /\ UNCHANGED <<detectVars, libVars>>

\* bb.on("finish", ...)
OnFinish ==
    /\ bb = "open"
    /\ parsed = Len(hreq.parts)
    /\ bb' = "finished"
    /\ uploads' = StreamsEnded(uploads)
    /\ done' = IF gotFile THEN done ELSE Settle(done, Rejected(NoFileError(hcopy)))
    /\ Respond(done', uploads')
    /\ UNCHANGED <<hcopy, hreq, parsed, gotFile, uploadedKey, hnow>>
    /\ UNCHANGED <<detectVars, libVars>>

\* the key the .then callback of upload i names
ThenKey(c, own, shared) == IF SharesKey(c) THEN shared ELSE own

\* uploader.done() fulfils and its .then callback runs
UploadDone(i) ==
    /\ uploads[i].state = "inflight"
    /\ LET key == ThenKey(hcopy, uploads[i].key, uploadedKey)
       IN IF hcopy = 3
          THEN /\ uploads' = [uploads EXCEPT ![i].state = "done", ![i].then = "signing",
                                             ![i].signKey = key]
               /\ done' = done
          ELSE /\ uploads' = [uploads EXCEPT ![i].state = "done", ![i].then = "ran"]
               /\ done' = Settle(done, Resolved("public", key, NoKey))
    /\ Respond(done', uploads')
    /\ UNCHANGED <<hcopy, hreq, bb, parsed, gotFile, uploadedKey, hnow>>
    /\ UNCHANGED <<detectVars, libVars>>

\* copy 3: await getSignedUrl(...) returns, resolve({ fileUrl, key: uploadedKey })
SignDone(i) ==
    /\ uploads[i].then = "signing"
    /\ uploads' = [uploads EXCEPT ![i].then = "ran"]
    /\ done' = Settle(done, Resolved("signed", uploads[i].signKey, uploadedKey))
    /\ Respond(done', uploads')
    /\ UNCHANGED <<hcopy, hreq, bb, parsed, gotFile, uploadedKey, hnow>>
    /\ UNCHANGED <<detectVars, libVars>>

\* copy 3: getSignedUrl rejects, .catch(reject)
SignFail(i) ==
    /\ uploads[i].then = "signing"
    /\ uploads' = [uploads EXCEPT ![i].then = "ran"]
    /\ done' = Settle(done, Rejected(SignError))
    /\ Respond(done', uploads')
    /\ UNCHANGED <<hcopy, hreq, bb, parsed, gotFile, uploadedKey, hnow>>
    /\ UNCHANGED <<detectVars, libVars>>

\* uploader.done() rejects, .catch(reject)
UploadFail(i) ==
    /\ uploads[i].state \in {"streaming", "inflight"}
    /\ uploads' = [uploads EXCEPT ![i].state = "failed"]
    /\ done' = Settle(done, Rejected(UploadError))
    /\ Respond(done', uploads')
    /\ UNCHANGED <<hcopy, hreq, bb, parsed, gotFile, uploadedKey, hnow>>
    /\ UNCHANGED <<detectVars, libVars>>

\* the client goes away before the body is complete: req closes without
\* 'end'.  req.pipe(bb) ends bb only on 'end', and the handler listens for
\* nothing on req, so busboy emits no further event and the stream of the
\* file part being read never ends.
Disconnect ==
    /\ hpc = "piping"
    /\ bb = "open"
    /\ bb' = "stalled"
    /\ UNCHANGED <<hcopy, hreq, hpc, parsed, gotFile, uploadedKey, uploads, done, hnow, res>>
    /\ UNCHANGED <<detectVars, libVars>>

UploadNext ==
    \/ \E method \in Methods, env \in Envs, parts \in Bodies : Handle(method, env, parts)
    \/ OnFile
    \/ SkipField
    \/ OnError
    \/ OnFinish
    \/ Disconnect
    \/ \E i \in 1..Len(uploads) : UploadDone(i)
    \/ \E i \in 1..Len(uploads) : SignDone(i)
    \/ \E i \in 1..Len(uploads) : SignFail(i)
    \/ \E i \in 1..Len(uploads) : UploadFail(i)

\* no analyze request is served while the upload handler is examined
DetectQuiet ==
    /\ ver = 1
    /\ world = LimitWorld
    /\ rows = <<>>
    /\ objects = {}
    /\ clock = 1
    /\ req = [s \in Slots |-> Idle]
    /\ nreq = 0
    /\ firsts = {}

-----------------------------------------------------------------------------
(* getTopDetectedGenerator (src/server/aiornot.ts), examined on its own.    *)
(* A score map is held as its entries in Object.entries order; scores are  *)
(* held in hundredths.                                                     *)

MaxGenerators == 3

GeneratorLabels == {"midjourney", "dall_e", "flux"}
GeneratorScores == {0, 85, 95}

\* the value null, and a label
NullLabel == [null |-> TRUE, label |-> ""]
Label(l) == [null |-> FALSE, label |-> l]

\* an argument of the function: undefined, or a map
MissingMap == [missing |-> TRUE, entries |-> <<>>]
ScoreMap(entries) == [missing |-> FALSE, entries |-> entries]

\* maps of at most MaxGenerators entries, each label at most once
ScoreMaps ==
    {MissingMap} \cup
    { ScoreMap(e) : e \in
        { e \in UNION {[1..n -> [label : GeneratorLabels, score : GeneratorScores]] :
                          n \in 0..MaxGenerators} :
            \A i, j \in 1..Len(e) : e[i].label = e[j].label => i = j } }

\* for (const [generator, score] of Object.entries(generatorScores))
RECURSIVE TopLoop(_, _, _)
TopLoop(entries, topGenerator, topScore) ==
    IF entries = <<>> THEN topGenerator
    ELSE IF Head(entries).score > topScore
    THEN TopLoop(Tail(entries), Head(entries).label, Head(entries).score)
    ELSE TopLoop(Tail(entries), topGenerator, topScore)

getTopDetectedGenerator(generatorScores) ==
    IF generatorScores.missing \/ Len(generatorScores.entries) = 0
    THEN NullLabel
    ELSE LET topGenerator == TopLoop(generatorScores.entries, "", 0)
         IN IF topGenerator = "" THEN NullLabel ELSE Label(topGenerator)

NoCall == [called |-> FALSE, arg |-> MissingMap, result |-> NullLabel]

GenQuiet == gen = NoCall

-----------------------------------------------------------------------------
(* The storage adapter (src/unnamed/part_009): storagePut, storageGet and  *)
(* getUploadUrl, each trying the Forge proxy and then the S3 bucket.       *)

MaxStorageCalls == 2

Backends == {"proxy", "s3"}
StorageOps == {"put", "get", "uploadUrl"}
StorageKeys == { <<"a">>, <<"b">> }
RelKeys == StorageKeys \cup { <<"/", "a">> }
Payloads == {1, 2}

\* relKey.replace(/^\/+/, "")
RECURSIVE normalizeKey(_)
normalizeKey(relKey) ==
    IF relKey # <<>> /\ Head(relKey) = "/" THEN normalizeKey(Tail(relKey)) ELSE relKey

\* ENV: forgeApiUrl, forgeApiKey, s3.accessKeyId and s3.secretAccessKey (creds),
\* s3.bucket, s3.endpoint
StorageConfigs ==
    { c \in [baseUrl : BOOLEAN, apiKey : BOOLEAN, creds : BOOLEAN,
             bucket : BOOLEAN, endpoint : BOOLEAN] :
        /\ c.baseUrl \/ ~c.apiKey
        /\ c.bucket \/ ~c.endpoint }

\* if (baseUrl && apiKey)
ProxyConfigured(c) == c.baseUrl /\ c.apiKey

\* getS3Client() returns a client
HasClient(c) == c.creds

\* if (client && ENV.s3.bucket), and for getUploadUrl && ENV.s3.endpoint
DirectUsable(c, op) ==
    /\ HasClient(c)
    /\ c.bucket
    /\ op = "uploadUrl" => c.endpoint

NoUrl == [backend |-> "", key |-> <<>>, form |-> ""]
Url(backend, key, form) == [backend |-> backend, key |-> key, form |-> form]

\* the URL the direct backend answers with
DirectUrl(c, op, key) ==
    CASE op = "get" -> Url("s3", key, "signed")
      [] op = "put" -> Url("s3", key, IF c.endpoint THEN "endpoint" ELSE "aws")
      [] OTHER -> Url("s3", key, "endpoint")

NoStorageError == [kind |-> "none", status |-> 0, msg |-> <<>>]
ConfigError(op) ==
    [kind |-> "config", status |-> 0,
     msg |-> CASE op = "put" -> <<"Storage", "configuration", "missing", ":", "set",
                                  "BUILT_IN_FORGE_API_KEY", "or", "S3", "credentials">>
               [] op = "get" -> <<"Storage", "configuration", "missing">>
               [] OTHER -> <<"Storage", "configuration", "missing", ":", "set", "forge",
                             "key", "or", "S3", "credentials">>]
ProxyRejection == [kind |-> "network", status |-> 0, msg |-> <<"fetch", "failed">>]
ProxyShapeError ==
    [kind |-> "shape", status |-> 0,
     msg |-> <<"Forge proxy must return {url, fields, fileUrl} for POST upload.">>]
DirectError == [kind |-> "s3", status |-> 0, msg |-> <<"AccessDenied">>]

\* non-OK statuses the proxy answers with
ProxyStatuses == {403, 503}

NoStorageCall ==
    [pc |-> "idle", op |-> "", key |-> <<>>, data |-> 0, tried |-> <<>>, proxyStatus |-> 0]

NoOutcome ==
    [op |-> "", key |-> <<>>, data |-> 0, tried |-> <<>>, proxyStatus |-> 0,
     ok |-> FALSE, url |-> NoUrl, err |-> NoStorageError]

Outcome(c, ok, url, err) ==
    [op |-> c.op, key |-> c.key, data |-> c.data, tried |-> c.tried,
     proxyStatus |-> c.proxyStatus, ok |-> ok, url |-> url, err |-> err]

StorageIdle ==
    /\ store = [b \in Backends |-> [k \in StorageKeys |-> 0]]
    /\ scall = NoStorageCall
    /\ lastPut = [k \in StorageKeys |-> 0]
    /\ slast = NoOutcome
    /\ ncalls = 0

StorageQuiet == scfg = [baseUrl |-> TRUE, apiKey |-> TRUE, creds |-> TRUE,
                        bucket |-> TRUE, endpoint |-> TRUE] /\ StorageIdle
StorageInit == scfg \in StorageConfigs /\ StorageIdle

\* the rest of a call after the proxy branch: the direct backend, or the
\* configuration error
AfterProxy(c) ==
    IF DirectUsable(scfg, c.op)
    THEN /\ scall' = [c EXCEPT !.pc = "s3", !.tried = Append(@, "s3")]
         /\ slast' = slast
    ELSE /\ scall' = NoStorageCall
         /\ slast' = Outcome(c, FALSE, NoUrl, ConfigError(c.op))

\* storagePut / storageGet / getUploadUrl up to the first await
StorageCall(op, relKey, data) ==
    /\ scall.pc = "idle"
    /\ ncalls < MaxStorageCalls
    /\ ncalls' = ncalls + 1
    /\ LET c == [NoStorageCall EXCEPT !.op = op, !.key = normalizeKey(relKey),
                                      !.data = IF op = "put" THEN data ELSE 0]
       IN IF ProxyConfigured(scfg)
          THEN /\ scall' = [c EXCEPT !.pc = "proxy", !.tried = <<"proxy">>]
               /\ slast' = slast
          ELSE AfterProxy(c)
    /\ UNCHANGED <<scfg, store, lastPut>>
    /\ UNCHANGED <<detectVars, uploadVars, gen, shareVars>>

\* the proxy answers OK (for getUploadUrl: with url, fields and fileUrl)
ProxyOk ==
    /\ scall.pc = "proxy"
    /\ store' = IF scall.op = "put"
                THEN [store EXCEPT !["proxy"][scall.key] = scall.data]
                ELSE store
    /\ lastPut' = IF scall.op = "put" THEN [lastPut EXCEPT ![scall.key] = scall.data]
                  ELSE lastPut
    /\ slast' = Outcome(scall, TRUE, Url("proxy", scall.key, "proxy"), NoStorageError)
    /\ scall' = NoStorageCall
    /\ UNCHANGED <<scfg, ncalls>>
    /\ UNCHANGED <<detectVars, uploadVars, gen, shareVars>>

\* getUploadUrl: the proxy answers OK without url, fields or fileUrl
ProxyMalformed ==
    /\ scall.pc = "proxy"
    /\ scall.op = "uploadUrl"
    /\ slast' = Outcome(scall, FALSE, NoUrl, ProxyShapeError)
    /\ scall' = NoStorageCall
    /\ UNCHANGED <<scfg, store, lastPut, ncalls>>
    /\ UNCHANGED <<detectVars, uploadVars, gen, shareVars>>

\* the proxy answers with a non-OK status: the call falls through
ProxyNotOk(status) ==
    /\ scall.pc = "proxy"
    /\ AfterProxy([scall EXCEPT !.proxyStatus = status])
    /\ UNCHANGED <<scfg, store, lastPut, ncalls>>
    /\ UNCHANGED <<detectVars, uploadVars, gen, shareVars>>

\* the request to the proxy fails: fetch rejects and the call throws
ProxyReject ==
    /\ scall.pc = "proxy"
    /\ slast' = Outcome(scall, FALSE, NoUrl, ProxyRejection)
    /\ scall' = NoStorageCall
    /\ UNCHANGED <<scfg, store, lastPut, ncalls>>
    /\ UNCHANGED <<detectVars, uploadVars, gen, shareVars>>

\* client.send(PutObjectCommand) / getSignedUrl / createPresignedPost answers
DirectOk ==
    /\ scall.pc = "s3"
    /\ store' = IF scall.op = "put"
                THEN [store EXCEPT !["s3"][scall.key] = scall.data]
                ELSE store
    /\ lastPut' = IF scall.op = "put" THEN [lastPut EXCEPT ![scall.key] = scall.data]
                  ELSE lastPut
    /\ slast' = Outcome(scall, TRUE, DirectUrl(scfg, scall.op, scall.key), NoStorageError)
    /\ scall' = NoStorageCall
    /\ UNCHANGED <<scfg, ncalls>>
    /\ UNCHANGED <<detectVars, uploadVars, gen, shareVars>>

\* the direct backend rejects
DirectFail ==
    /\ scall.pc = "s3"
    /\ slast' = Outcome(scall, FALSE, NoUrl, DirectError)
    /\ scall' = NoStorageCall
    /\ UNCHANGED <<scfg, store, lastPut, ncalls>>
    /\ UNCHANGED <<detectVars, uploadVars, gen, shareVars>>

StorageNext ==
    \/ \E op \in StorageOps, relKey \in RelKeys, data \in Payloads :
          StorageCall(op, relKey, data)
    \/ ProxyOk
    \/ ProxyMalformed
    \/ \E status \in ProxyStatuses : ProxyNotOk(status)
    \/ ProxyReject
    \/ DirectOk
    \/ DirectFail

-----------------------------------------------------------------------------
(* Share links and single results                                          *)

MaxShareCalls == 2
MaxViews == 3

ShareUsers == {1, 2}
ResultIds == {1, 2}
\* generateShareToken: 32 hex digits of a hash of Math.random() and Date.now()
ShareTokens == {"t1", "t2"}
Viewers == 1..MaxViews

\* no row of share_links for the token
NoLink == [userId |-> 0, detectionResultId |-> 0, viewCount |-> 0, lastViewedAt |-> 0]

\* a row as the insert leaves it: viewCount default 0, lastViewedAt null
NewLink(user, id) ==
    [userId |-> user, detectionResultId |-> id, viewCount |-> 0, lastViewedAt |-> 0]

\* result[0] of a select with limit 1: the row, or undefined
Undefined == [found |-> FALSE, id |-> 0, userId |-> 0]

Row(id) == [found |-> TRUE, id |-> id, userId |-> sresults[id]]

getDetectionResult(id) == IF sresults[id] # 0 THEN Row(id) ELSE Undefined

\* copy 1 of the db module takes the id only; copy 2 adds the user to the
\* conditions when one is given
getDetectionResultById(v, id, userId) ==
    IF v = 1 THEN getDetectionResult(id)
    ELSE IF sresults[id] # 0 /\ (userId = 0 \/ sresults[id] = userId)
         THEN Row(id) ELSE Undefined

getShareLinkBySlug(slug) == shareLinks[slug]

\* null when the token has no link
getShareLinkStats(slug) ==
    LET link == getShareLinkBySlug(slug)
    IN  IF link = NoLink THEN [found |-> FALSE, viewCount |-> 0, lastViewedAt |-> 0]
        ELSE [found |-> TRUE, viewCount |-> link.viewCount,
              lastViewedAt |-> link.lastViewedAt]

ShareIdleCall == [pc |-> "idle", token |-> "", seen |-> 0, hit |-> FALSE]

NoShareCall ==
    [op |-> "", user |-> 0, id |-> 0, token |-> "", code |-> "", found |-> FALSE,
     limit |-> 0, list |-> <<>>]

ShareOutcome(op, user, id, token, code, found) ==
    [op |-> op, user |-> user, id |-> id, token |-> token, code |-> code,
     found |-> found, limit |-> 0, list |-> <<>>]

ShareIdle ==
    /\ incs = [i \in Viewers |-> ShareIdleCall]
    /\ shnow = 1
    /\ shlast = NoShareCall
    /\ nshare = 0

ShareQuiet ==
    /\ shver = 1
    /\ sresults = [id \in ResultIds |-> 0]
    /\ shareLinks = [t \in ShareTokens |-> NoLink]
    /\ ShareIdle

\* the tables hold what earlier requests left: results of either user, and
\* possibly a link of user 1 to result 1
ShareInit ==
    /\ shver \in Versions
    /\ sresults \in [ResultIds -> {0} \cup ShareUsers]
    /\ \E linked \in BOOLEAN :
         shareLinks = [t \in ShareTokens |->
                          IF linked /\ t = "t1" /\ sresults[1] = 1
                          THEN NewLink(1, 1) ELSE NoLink]
    /\ ShareIdle

Completes(o) ==
    /\ nshare < MaxShareCalls
    /\ shlast' = o
    /\ nshare' = nshare + 1

\* detection.getResult: returns what the db function returns
GetResult(user, id) ==
    /\ Completes(ShareOutcome("getResult", user, id, "", "",
                              getDetectionResultById(shver, id, user).found))
    /\ UNCHANGED <<shver, sresults, shareLinks, incs, shnow>>
    /\ UNCHANGED <<detectVars, uploadVars, gen, storageVars>>

\* the ids of the user's rows, newest first (createdAt grows with the id)
RECURSIVE OwnedNewestFirst(_, _)
OwnedNewestFirst(userId, id) ==
    IF id = 0 THEN <<>>
    ELSE (IF sresults[id] = userId THEN <<id>> ELSE <<>>)
             \o OwnedNewestFirst(userId, id - 1)

Take(list, n) == SubSeq(list, 1, IF n < Len(list) THEN n ELSE Len(list))

\* copy 1 of the db module applies .limit(limit); copy 2 has no limit
getUserDetectionHistory(v, userId, limit) ==
    LET all == OwnedNewestFirst(userId, Cardinality(ResultIds))
    IN  IF v = 1 THEN Take(all, limit) ELSE all

\* z.number().default(50): any number passes the input schema
HistoryLimits == {1, 50, 100, 101}

HistoryInputOk(limit) == TRUE

\* detection.getHistory: copy 1 passes the limit on, copy 2 drops it
GetHistory(user, limit) ==
    /\ Completes([ShareOutcome("getHistory", user, 0, "",
                               IF HistoryInputOk(limit) THEN "" ELSE "BAD_REQUEST",
                               TRUE)
                    EXCEPT !.limit = limit,
                           !.list = IF HistoryInputOk(limit)
                                    THEN getUserDetectionHistory(shver, user, limit)
                                    ELSE <<>>])
    /\ UNCHANGED <<shver, sresults, shareLinks, incs, shnow>>
    /\ UNCHANGED <<detectVars, uploadVars, gen, storageVars>>

\* detection.createShareLink of copy 2: the NOT_FOUND thrown in the try block
\* and a rejected insert (the token is unique) both leave through the catch
CreateShareLink(user, id, token) ==
    /\ shver = 2
    /\ LET result == getDetectionResultById(shver, id, user)
           stored == result.found /\ shareLinks[token] = NoLink
       IN  /\ Completes(ShareOutcome("createShareLink", user, id, token,
                                     IF stored THEN "" ELSE "INTERNAL_SERVER_ERROR",
                                     result.found))
           /\ shareLinks' = IF stored
                            THEN [shareLinks EXCEPT ![token] = NewLink(user, id)]
                            ELSE shareLinks
    /\ UNCHANGED <<shver, sresults, incs, shnow>>
    /\ UNCHANGED <<detectVars, uploadVars, gen, storageVars>>

\* detection.getShareStats: the NOT_FOUND of a missing or foreign link is
\* thrown inside the try block and replaced by the catch
GetShareStats(user, token) ==
    /\ LET shareLink == getShareLinkBySlug(token)
           allowed == shareLink # NoLink /\ shareLink.userId = user
       IN  Completes(ShareOutcome("getShareStats", user, 0, token,
                                  IF allowed THEN "" ELSE "INTERNAL_SERVER_ERROR",
                                  allowed /\ getShareLinkStats(token).found))
    /\ UNCHANGED <<shver, sresults, shareLinks, incs, shnow>>
    /\ UNCHANGED <<detectVars, uploadVars, gen, storageVars>>

\* getDetectionResultByShareSlug: null without a link, else the linked result
GetDetectionResultByShareSlug(slug) ==
    /\ LET link == getShareLinkBySlug(slug)
           result == IF link = NoLink THEN Undefined
                     ELSE getDetectionResult(link.detectionResultId)
       IN  Completes(ShareOutcome("getDetectionResultByShareSlug", 0, result.id,
                                  slug, "", result.found))
    /\ UNCHANGED <<shver, sresults, shareLinks, incs, shnow>>
    /\ UNCHANGED <<detectVars, uploadVars, gen, storageVars>>

\* incrementShareLinkView up to its update: the link is selected, and the
\* call returns when there is none
IncrementSelect(i, token) ==
    /\ incs[i].pc = "idle"
    /\ \A j \in Viewers : j < i => incs[j].pc # "idle"
    /\ LET link == getShareLinkBySlug(token)
       IN  incs' = [incs EXCEPT ![i] =
                       IF link = NoLink
                       THEN [pc |-> "done", token |-> token, seen |-> 0, hit |-> FALSE]
                       ELSE [pc |-> "update", token |-> token, seen |-> link.viewCount,
                             hit |-> TRUE]]
    /\ UNCHANGED <<shver, sresults, shareLinks, shnow, shlast, nshare>>
    /\ UNCHANGED <<detectVars, uploadVars, gen, storageVars>>

\* its update: viewCount is set to one more than the count selected before
IncrementUpdate(i) ==
    /\ incs[i].pc = "update"
    /\ shareLinks' = [shareLinks EXCEPT ![incs[i].token] =
                         [@ EXCEPT !.viewCount = incs[i].seen + 1,
                                   !.lastViewedAt = shnow]]
    /\ shnow' = shnow + 1
    /\ incs' = [incs EXCEPT ![i].pc = "done"]
    /\ UNCHANGED <<shver, sresults, shlast, nshare>>
    /\ UNCHANGED <<detectVars, uploadVars, gen, storageVars>>

ShareNext ==
    \/ \E u \in ShareUsers, id \in ResultIds : GetResult(u, id)
    \/ \E u \in ShareUsers, l \in HistoryLimits : GetHistory(u, l)
    \/ \E u \in ShareUsers, id \in ResultIds, t \in ShareTokens :
          CreateShareLink(u, id, t)
    \/ \E u \in ShareUsers, t \in ShareTokens : GetShareStats(u, t)
    \/ \E t \in ShareTokens : GetDetectionResultByShareSlug(t)
    \/ \E i \in Viewers, t \in ShareTokens : IncrementSelect(i, t)
    \/ \E i \in Viewers : IncrementUpdate(i)

LibQuiet == GenQuiet /\ StorageQuiet /\ ShareQuiet

\* a caller applies the function to a score map
CallGetTop(m) ==
    /\ ~gen.called
    /\ gen' = [called |-> TRUE, arg |-> m, result |-> getTopDetectedGenerator(m)]
    /\ UNCHANGED <<detectVars, uploadVars, storageVars, shareVars>>

GenNext == \E m \in ScoreMaps : CallGetTop(m)

vars == <<detectVars, uploadVars, libVars>>

Init == DetectInit /\ UploadQuiet /\ LibQuiet

Spec == Init /\ [][DetectNext]_vars

InitUpload == DetectQuiet /\ UploadInit /\ LibQuiet

SpecUpload == InitUpload /\ [][UploadNext]_vars

\* events that are pending are delivered: busboy goes on parsing a body that
\* keeps arriving, and the storage client answers an upload whose body it
\* has received in full
ParserGoesOn == OnFile \/ SkipField \/ OnFinish
StorageAnswers ==
    \/ \E i \in 1..Len(uploads) :
          uploads[i].state = "inflight" /\ (UploadDone(i) \/ UploadFail(i))
    \/ \E i \in 1..Len(uploads) : SignDone(i) \/ SignFail(i)

SpecUploadLive ==
    /\ InitUpload
    /\ [][UploadNext]_vars
    /\ WF_vars(ParserGoesOn)
    /\ WF_vars(StorageAnswers)

InitGen == DetectQuiet /\ UploadQuiet /\ GenQuiet /\ StorageQuiet /\ ShareQuiet

SpecGen == InitGen /\ [][GenNext]_vars

InitStorage == DetectQuiet /\ UploadQuiet /\ GenQuiet /\ StorageInit /\ ShareQuiet

SpecStorage == InitStorage /\ [][StorageNext]_vars

InitShare == DetectQuiet /\ UploadQuiet /\ GenQuiet /\ StorageQuiet /\ ShareInit

SpecShare == InitShare /\ [][ShareNext]_vars

-----------------------------------------------------------------------------
(* Claims about the analyze procedures *)

Active == {s \in Slots : req[s].pc # "idle"}
Done == {s \in Slots : req[s].pc = "done"}

\* an earlier submission of the same bytes by the same user that succeeded
\* and recorded a DetectionResult
FirstOf(r) == {f \in firsts : f.user = r.user /\ f.content = r.content}

\* C1: for every analyze procedure, once user U's submission of bytes B has
\* succeeded and recorded a DetectionResult, a later successful submission of B
\* by U returns isCached = true, processingTimeMs = 0 and the verdict and
\* confidence of the first submission.
C1_RepeatIsCacheHit ==
    \A s \in Done :
        LET r == req[s]
        IN r.resp.kind = "ok" =>
             \A f \in FirstOf(r) :
                /\ r.resp.isCached = "true"
                /\ r.resp.processingTimeMs = 0
                /\ r.resp.verdict = f.verdict
                /\ r.resp.confidence = f.confidence

\* C2: a request whose duplicate lookup found a row makes no detection call,
\* no storagePut and no insert; if it calls storageGet, it is on the found row's
\* non-empty key.
C2_CacheHitFrame ==
    \A s \in Active :
        LET r == req[s]
        IN r.dup # 0 =>
             /\ r.eff.detect = 0
             /\ r.eff.put = 0
             /\ r.eff.insert = 0
             /\ r.eff.get = 1 => (Truthy(rows[r.dup].s3Key) /\ r.getKey = rows[r.dup].s3Key)

C2_Witness ==
    \E s \in Done :
        /\ req[s].dup # 0
        /\ req[s].resp.isCached = "true"
        /\ req[s].eff.get = 1

\* C3: a request whose duplicate lookup failed goes on to the detection call
\* (the failure is a cache miss, not the caller's error).
C3_LookupFailureIsMiss ==
    \A s \in Done :
        req[s].lookupFailed =>
            /\ req[s].eff.detect = 1
            /\ req[s].resp.kind = "error" => req[s].err.cause # "db"

\* C4: a cache hit is served from a row of the calling user; and when another
\* user has analysed bytes B and the caller has not, the caller's successful
\* submission of B returns isCached = false and calls the detection service.
C4_CacheScopedToUser ==
    \A s \in Done :
        LET r == req[s]
        IN /\ r.resp.isCached = "true" => (r.dup # 0 /\ rows[r.dup].userId = r.user)
           /\ ( /\ r.resp.kind = "ok"
                /\ FirstOf(r) = {}
                /\ \E f \in firsts : f.user # r.user /\ f.content = r.content )
              => (r.resp.isCached = "false" /\ r.eff.detect = 1)

\* the ceilings and media types as the interface documents them
CeilingMB(op) == CASE op = "image" -> 10 [] op = "audio" -> 50 [] OTHER -> 100
CeilingBytes(op) == CeilingMB(op) * 1024 * 1024
CeilingLabel(op) == CASE op = "image" -> "10MB" [] op = "audio" -> "50MB" [] OTHER -> "100MB"
CeilingChars == 50 * 1000

\* the procedure holds the bytes to measure: they came inline, or the fileUrl
\* fetch has delivered them
HasBytes(r) ==
    \/ r.source = "inline"
    \/ r.source = "url" /\ r.eff.fetch = 1 /\ r.err.cause # "fetch"

\* C5: a file of an allowed type whose decoded size equals the class ceiling
\* (10, 50, 100 MB) is never rejected with BAD_REQUEST, one byte more is
\* rejected with BAD_REQUEST and a message naming the ceiling; text of 50,000
\* characters passes validation and text of 50,001 characters is rejected.
C5_SizeCeilings ==
    \A s \in Active :
        LET r == req[s]
        IN /\ ( /\ r.op \in FileOps
                /\ ListIncludes(AllowedTypes(r.op), r.mime)
                /\ HasBytes(r) )
              => /\ r.content.len = CeilingBytes(r.op) => r.resp.code # "BAD_REQUEST"
                 /\ r.content.len = CeilingBytes(r.op) + 1
                      => /\ r.pc = "done"
                         /\ r.resp.code = "BAD_REQUEST"
                         /\ Includes(r.resp.msg, <<CeilingLabel(r.op)>>)
           /\ r.op = "text"
              => /\ r.content.len = CeilingChars => r.resp.code # "BAD_REQUEST"
                 /\ r.content.len = CeilingChars + 1
                      => (r.pc = "done" /\ r.resp.code = "BAD_REQUEST")

C5_Witness ==
    \E s \in Done :
        /\ req[s].op = "video"
        /\ req[s].content.len = CeilingBytes("video")
        /\ req[s].resp.kind = "ok"

\* C6: a file submission whose MIME type is not allowed for its class is
\* rejected with BAD_REQUEST and a message that lists exactly the allowed types
\* of that class.
C6_BadMimeListsOwnClass ==
    \A s \in Active :
        LET r == req[s]
        IN (r.op \in FileOps /\ ~ListIncludes(AllowedTypes(r.op), r.mime))
             => /\ r.pc = "done"
                /\ r.resp.code = "BAD_REQUEST"
                /\ r.resp.msg = <<InvalidTypeHead(r.op)>> \o AllowedTypes(r.op)

NoNetwork(r) ==
    /\ r.eff.fetch = 0
    /\ r.eff.lookup = 0
    /\ r.eff.get = 0
    /\ r.eff.detect = 0
    /\ r.eff.put = 0
    /\ r.eff.insert = 0

IsSizeRejection(r) ==
    /\ r.op \in FileOps
    /\ r.resp.code = "BAD_REQUEST"
    /\ ListIncludes(AllowedTypes(r.op), r.mime)
    /\ r.source # "none"

\* C7 as stated: a request rejected with BAD_REQUEST for its MIME type or its
\* size has made no network call at all, whether the bytes were inline or
\* behind a fileUrl.
C7_RejectionBeforeAnyCall ==
    \A s \in Done :
        req[s].resp.code = "BAD_REQUEST" => NoNetwork(req[s])

\* C7 amended: a submission with an unsupported MIME type is rejected having
\* made no network call; a size rejection has made no database, storage or
\* detection call, and its only network call is the fetch of the fileUrl when
\* the bytes were not inline.
C7_RejectionBeforeCalls ==
    \A s \in Active :
        LET r == req[s]
        IN /\ (r.op \in FileOps /\ ~ListIncludes(AllowedTypes(r.op), r.mime))
                => (r.pc = "done" /\ r.resp.code = "BAD_REQUEST" /\ NoNetwork(r))
           /\ r.resp.code = "BAD_REQUEST"
                => /\ r.eff.lookup = 0 /\ r.eff.get = 0 /\ r.eff.detect = 0
                   /\ r.eff.put = 0 /\ r.eff.insert = 0
                   /\ r.eff.fetch = IF IsSizeRejection(r) /\ r.source = "url" THEN 1 ELSE 0

C7_Witness ==
    \E s \in Done :
        /\ IsSizeRejection(req[s])
        /\ req[s].source = "url"
        /\ req[s].eff.fetch = 1

\* C8: in every analyze procedure, a failure whose message contains "402" or
\* "Paid plan" is answered with FORBIDDEN.
C8_PlanLimitIsForbidden ==
    \A s \in Done :
        (req[s].err.cause # "none" /\ PlanRestricted(req[s].err))
            => req[s].resp.code = "FORBIDDEN"

\* the fixed messages of the failure path
FixedMessages(op) == {GenericMessage(op), StorageNotConfiguredMessage}

\* C9: a failure that is not a plan restriction is answered with
\* INTERNAL_SERVER_ERROR and one of the fixed messages, never with FORBIDDEN
\* and never with the text of the underlying error.
C9_OtherFailuresGeneric ==
    \A s \in Done :
        LET r == req[s]
        IN (r.err.cause # "none" /\ ~PlanRestricted(r.err))
             => /\ r.resp.code = "INTERNAL_SERVER_ERROR"
                /\ r.resp.msg \in FixedMessages(r.op)

\* an upstream confidence (held as c * 100000) written with four decimals
FourDecimals(c) ==
    LET n == (c + 5) \div 10
    IN <<DigitStr(n \div 10000), ".", DigitStr((n \div 1000) % 10),
         DigitStr((n \div 100) % 10), DigitStr((n \div 10) % 10), DigitStr(n % 10)>>

\* C15: the confidence a fresh analysis returns, and the one it stores, is the
\* upstream confidence written with four decimals (0.953 gives "0.9530").
C15_ConfidenceFourDecimals ==
    \A s \in Done :
        LET r == req[s]
        IN (r.resp.kind = "ok" /\ r.eff.detect = 1)
             => /\ r.resp.confidence = FourDecimals(r.api.conf)
                /\ \E i \in 1..Len(rows) :
                      /\ rows[i].userId = r.user
                      /\ rows[i].fileHash = calculateFileHash(r.content)
                      /\ DecimalRead(rows[i].confidence) = FourDecimals(r.api.conf)

-----------------------------------------------------------------------------
(* Claims about the upload handler *)

\* C10: when the upload handler has sent a 200, some storage upload had
\* completed at that moment, and the fileUrl of the response names the key of
\* an upload that had completed then.
C10_OkNamesCompletedUpload ==
    res.status = 200 =>
        \E i \in 1..Len(res.sentWith) :
            /\ res.sentWith[i].state = "done"
            /\ res.sentWith[i].key = res.body.fileUrl

\* C11: a POST to the upload handler that is not answered with 200 is answered
\* with status 500 and a JSON object body that has an error field.
C11_FailureIsJsonError ==
    (hreq.method = "POST" /\ hpc = "responded" /\ res.status # 200)
        => /\ res.status = 500
           /\ res.body.kind = "json"
           /\ res.body.error # ""

\* C12: the upload handler answers OPTIONS with 204, the three CORS headers
\* and an empty body, and any method other than POST and OPTIONS with 405 and a
\* JSON error; neither starts a storage upload, and neither depends on the
\* storage environment being set.
C12_PreflightAndMethodNotAllowed ==
    /\ hreq.method = "OPTIONS"
         => /\ res.status = 204
            /\ res.headers = CorsHeaders
            /\ res.body.kind = "empty"
            /\ res.ends = 1
            /\ uploads = <<>>
    /\ hreq.method \notin {"", "POST", "OPTIONS"}
         => /\ res.status = 405
            /\ res.body.kind = "json"
            /\ res.body.error # ""
            /\ res.ends = 1
            /\ uploads = <<>>

C12_Witness ==
    /\ hreq.method = "GET"
    /\ hreq.env # AllEnv
    /\ res.status = 405

\* C13: whatever the number of file parts in the body, at most one storage
\* upload is started (the one of the first file part), and the fileUrl of a
\* 200 names the key of that first part.
C13_OnlyFirstFileUploaded ==
    /\ Len(uploads) <= 1
    /\ res.status = 200 => res.body.fileUrl = uploads[1].key

-----------------------------------------------------------------------------
(* Claims about getTopDetectedGenerator *)

\* the highest score of a non-empty list of entries
MaxScore(entries) ==
    CHOOSE x \in {entries[i].score : i \in 1..Len(entries)} :
        \A i \in 1..Len(entries) : entries[i].score <= x

\* the first entry that has the highest score
FirstArgMax(entries) ==
    entries[CHOOSE i \in 1..Len(entries) :
                /\ entries[i].score = MaxScore(entries)
                /\ \A j \in 1..(i - 1) : entries[j].score # MaxScore(entries)].label

\* C14: getTopDetectedGenerator returns null for a missing or empty score map,
\* and for a non-empty map the first-encountered label among those with the
\* highest score.
C14_TopGeneratorIsFirstArgMax ==
    gen.called =>
        IF gen.arg.missing \/ gen.arg.entries = <<>>
        THEN gen.result = NullLabel
        ELSE gen.result = Label(FirstArgMax(gen.arg.entries))

-----------------------------------------------------------------------------
(* Claims about the storage adapter *)

\* the proxy was asked and did not complete the call
ProxyFailed(o) == o.tried # <<>> /\ o.tried[1] = "proxy" /\ ~(o.ok /\ o.url.backend = "proxy")

TriedDirect(o) == \E i \in 1..Len(o.tried) : o.tried[i] = "s3"

\* C16: a storagePut asks the proxy first when the proxy is configured; when
\* the proxy is unconfigured or its upload fails (non-OK answer or failed
\* request) and the direct backend is usable, the direct put is performed;
\* when neither backend is usable the call throws a configuration error and
\* stores nothing.
C16_PutTriesProxyThenDirect ==
    slast.op = "put" =>
        /\ ProxyConfigured(scfg) => slast.tried[1] = "proxy"
        /\ ((~ProxyConfigured(scfg) \/ ProxyFailed(slast)) /\ DirectUsable(scfg, "put"))
              => TriedDirect(slast)
        /\ (~ProxyConfigured(scfg) /\ ~DirectUsable(scfg, "put"))
              => /\ ~slast.ok
                 /\ slast.err.kind = "config"
                 /\ ncalls = 1 => \A b \in Backends, k \in StorageKeys : store[b][k] = 0

\* C17: a storage adapter call that the proxy answered with a non-OK status
\* and that no backend completed throws an error carrying that status, not a
\* missing-configuration error.
C17_HttpFailureIsReported ==
    (slast.op # "" /\ slast.proxyStatus # 0 /\ ~slast.ok)
        => /\ slast.err.status = slast.proxyStatus
           /\ slast.err.kind # "config"

\* what dereferencing a URL serves (0: nothing)
Deref(url) == store[url.backend][url.key]

\* C18: a storageGet that succeeds for a key whose last successful storagePut
\* stored bytes d returns a URL that serves d.
C18_GetServesWhatWasPut ==
    (slast.op = "get" /\ slast.ok /\ lastPut[slast.key] # 0)
        => Deref(slast.url) = lastPut[slast.key]

-----------------------------------------------------------------------------
(* Further claims about the upload handler (SpecUpload, SpecUploadLive)    *)

\* every event of the request has been delivered: the parser has finished or
\* failed and every upload has completed or failed, its callbacks included
AllEventsDelivered ==
    /\ bb \in {"finished", "errored"}
    /\ \A i \in 1..Len(uploads) :
          \/ uploads[i].state = "failed"
          \/ uploads[i].state = "done" /\ uploads[i].then = "ran"

\* C24: in every ordering of file parts, parser error, parser finish, upload
\* successes and upload failures the response is ended at most once, an
\* upload that completes or fails after the response was sent leaves the
\* response as it is, and once every event has been delivered the response
\* has been ended.
C24_ResponseEndsOnce ==
    [][ /\ res'.ends <= 1
        /\ hpc = "responded" => res' = res
        /\ AllEventsDelivered' => res'.ends = 1 ]_vars

\* an upload has completed or failed after the response was sent
C24_Witness ==
    /\ hpc = "responded"
    /\ res.ends = 1
    /\ \E i \in 1..Len(res.sentWith) :
          /\ res.sentWith[i].state \in {"streaming", "inflight"}
          /\ uploads[i].state \in {"done", "failed"}

StillWriting == {i \in 1..Len(uploads) : uploads[i].state \in {"streaming", "inflight"}}

\* C25: after the client has disconnected in the middle of a POST upload the
\* request ends with an error response and no storage write is left running.
C25_DisconnectEndsWithError ==
    (bb = "stalled") ~> (hpc = "responded" /\ res.status = 500 /\ StillWriting = {})

-----------------------------------------------------------------------------
(* Further claims about the analyze procedures (Spec)                      *)

\* the detection service answered a video request without report.ai_video
MalformedAnswer(r) ==
    r.op = "video" /\ r.eff.detect = 1 /\ r.err = MalformedVideoError(ver)

\* C22: when the upstream video answer has no report.ai_video, analyzeVideo
\* fails with INTERNAL_SERVER_ERROR, and the request neither puts the file
\* into storage nor records a DetectionResult.
C22_MalformedVideoIsInternalError ==
    \A s \in Active :
        LET r == req[s]
        IN MalformedAnswer(r) =>
             /\ r.pc = "done"
             /\ r.resp.kind = "error"
             /\ r.resp.code = "INTERNAL_SERVER_ERROR"
             /\ r.eff.put = 0
             /\ r.eff.insert = 0
             /\ r.key \notin objects
             /\ \A i \in DOMAIN rows : rows[i].s3Key # r.key \/ r.key = EmptyKey

C22_Witness ==
    \E s \in Done :
        /\ MalformedAnswer(req[s])
        /\ ~req[s].api.ok
        /\ req[s].resp.code = "INTERNAL_SERVER_ERROR"

\* rows of the same user with the same content hash
SameUserAndHash(i, j) ==
    rows[i].userId = rows[j].userId /\ rows[i].fileHash = rows[j].fileHash

\* two overlapping submissions of the same bytes by one user have both
\* completed as fresh results, and both are recorded
RaceLeavesTwoRows ==
    /\ \A s \in Slots :
          /\ req[s].pc = "done"
          /\ req[s].resp.kind = "ok"
          /\ req[s].resp.isCached = "false"
          /\ req[s].user = req[1].user
          /\ req[s].content = req[1].content
    /\ \E i, j \in DOMAIN rows : i # j /\ SameUserAndHash(i, j)

\* C23: submissions of the same bytes by the same user that run one after
\* the other leave one DetectionResult for that (user, content hash); only
\* overlapping submissions can leave two.
C23_SequentialLeavesOneRow ==
    world.maxInFlight = 1 =>
        \A i, j \in DOMAIN rows : SameUserAndHash(i, j) => i = j

\* C26: every DetectionResult with a non-empty storage key names an object
\* whose put succeeded under that key; a request that records a result for a
\* file has completed its put before, and a text result is recorded without
\* a put and without a storage key.
C26_StoredBeforeRecorded ==
    /\ \A i \in DOMAIN rows :
          /\ Truthy(rows[i].s3Key) => rows[i].s3Key \in objects
          /\ rows[i].fileType = "text" => ~Truthy(rows[i].s3Key)
    /\ \A s \in Active :
          LET r == req[s]
          IN /\ (r.pc = "insert" \/ r.eff.insert = 1) =>
                   IF r.op = "text" THEN r.eff.put = 0
                   ELSE r.eff.put = 1 /\ r.key \in objects
             /\ r.op = "text" => r.eff.put = 0

C26_Witness ==
    \E s \in Done :
        /\ req[s].resp.kind = "ok"
        /\ req[s].dup = 0
        /\ req[s].eff.put = 1
        /\ req[s].eff.insert = 1
        /\ \E i \in DOMAIN rows : rows[i].s3Key = req[s].key /\ rows[i].s3Key \in objects

\* C27: a request served from the cache receives a row that was recorded for
\* the same media class and computed by the same detection endpoint.
C27_CacheHitSameRoute ==
    \A s \in Done :
        LET r == req[s]
        IN (r.dup # 0 /\ r.resp.isCached = "true") =>
             /\ rows[r.dup].fileType = r.op
             /\ rows[r.dup].rawResponse = Endpoint(r.op, r.audioType)

-----------------------------------------------------------------------------
(* Claims about share links and single results (SpecShare)                 *)

ShareReads == {"getDetectionResultByShareSlug", "getShareStats"}

\* a read through a share token that found its link completes in this step
SharedReadCompletes ==
    /\ nshare' = nshare + 1
    /\ shlast'.op \in ShareReads
    /\ shlast'.code = ""
    /\ shareLinks[shlast'.token] # NoLink

\* C19: every read of a shared result through its share token adds one to
\* the viewCount of the link and sets its lastViewedAt, and no step lowers
\* the viewCount of a link.
C19_ViewCountCountsReads ==
    [][ /\ \A t \in ShareTokens :
             shareLinks'[t].viewCount >= shareLinks[t].viewCount
        /\ SharedReadCompletes =>
             /\ shareLinks'[shlast'.token].viewCount
                    = shareLinks[shlast'.token].viewCount + 1
             /\ shareLinks'[shlast'.token].lastViewedAt # 0 ]_vars

\* C20: detection.getResult for an id without a row in detection_results
\* fails with NOT_FOUND; it never completes with an empty value.
C20_MissingResultIsNotFound ==
    (shlast.op = "getResult" /\ sresults[shlast.id] = 0)
        => shlast.code = "NOT_FOUND"

\* C21: detection.getHistory rejects a limit above 100 with a validation
\* error, and an accepted call returns at most limit results, all owned by
\* the calling user, newest first.
C21_HistoryRespectsLimit ==
    shlast.op = "getHistory" =>
        /\ shlast.limit > 100 => shlast.code = "BAD_REQUEST"
        /\ shlast.code = "" =>
             /\ Len(shlast.list) <= shlast.limit
             /\ \A i \in 1..Len(shlast.list) : sresults[shlast.list[i]] = shlast.user
             /\ \A i \in 1..(Len(shlast.list) - 1) : shlast.list[i] > shlast.list[i + 1]

\* C28: getResult returns no row and createShareLink creates no link for a
\* result owned by another user.
C28_OnlyOwnResults ==
    /\ (shlast.op = "getResult" /\ shlast.found)
           => sresults[shlast.id] = shlast.user
    /\ \A t \in ShareTokens :
           shareLinks[t] # NoLink
               => sresults[shareLinks[t].detectionResultId] = shareLinks[t].userId

\* calls of incrementShareLinkView that have completed on a link of token t
CompletedViews(t) ==
    {i \in Viewers : incs[i].pc = "done" /\ incs[i].token = t /\ incs[i].hit}

\* C29: when no call of incrementShareLinkView is between its select and
\* its update, the viewCount of every link equals the number of calls that
\* have completed on it.
C29_IncrementIsAtomic ==
    \A t \in ShareTokens :
        (\A i \in Viewers : ~(incs[i].pc = "update" /\ incs[i].token = t))
            => shareLinks[t].viewCount = Cardinality(CompletedViews(t))

\* C30: createShareLink for a result that is missing or not the caller's,
\* and getShareStats for a link that is missing or not the caller's, fail
\* with NOT_FOUND.
C30_NotFoundIsReported ==
    (shlast.op \in {"createShareLink", "getShareStats"} /\ ~shlast.found)
        => shlast.code = "NOT_FOUND"

====
